---- MODULE Spec2Model ----
(***************************************************************************)
(* The FSM actor framework of quattervals/fsm: a machine (the lathe of     *)
(* machines/lathe.rs behind the generic MachineController / MachineThread  *)
(* of machines/shared.rs, or the mill of machines/mill.rs behind its own   *)
(* MillController) runs on a worker thread; the controller submits         *)
(* commands over one mpsc channel and polls responses from another.        *)
(***************************************************************************)
EXTENDS Integers, Sequences, FiniteSets, TLC

\* Bounds of the model.
MaxCmds == 2      \* send_command calls made on one controller
MaxParam == 1     \* largest command parameter / data value

Params == 0..MaxParam                 \* u32 parameters (revs, feed)
MoveParams == (0 - MaxParam)..MaxParam \* i32 parameter of Move

Kinds == {"lathe", "mill"}

----------------------------------------------------------------------------
\* Commands: <<name>> for a unit variant, <<name, parameter>> otherwise.

LatheCommand ==
    {<<"StartSpinning", p>> : p \in Params} \cup {<<"Feed", p>> : p \in Params}
        \cup {<<"StopSpinning">>, <<"StopFeed">>, <<"Notaus">>, <<"Acknowledge">>}

MillCommand ==
    {<<"StartSpinning", p>> : p \in Params} \cup {<<"Move", p>> : p \in MoveParams}
        \cup {<<"StopSpinning">>, <<"StopMoving">>}

CommandsOf(k) == IF k = "lathe" THEN LatheCommand ELSE MillCommand

\* format!("{:?}", cmd): the derived Debug rendering of a command.
DebugFmt(cmd) ==
    IF Len(cmd) = 1 THEN cmd[1] ELSE cmd[1] \o "(" \o ToString(cmd[2]) \o ")"

\* A rejection that reports the command's name without its parameter.
InvalidTransitionBare(s, cmd) ==
    [tag |-> "InvalidTransition", current_state |-> s, attempted_command |-> cmd[1]]

Status(s) == [tag |-> "Status", state |-> s]
InvalidTransition(s, cmd) ==
    [tag |-> "InvalidTransition", current_state |-> s,
     attempted_command |-> DebugFmt(cmd)]

----------------------------------------------------------------------------
\* The lathe: type-state transitions on the business data (lathe.rs 47-114).

LatheStates == {"Off", "Spinning", "Feeding", "Notaus"}
LatheData == [revs : Params, feed : Params]
LatheDataDefault == [revs |-> 0, feed |-> 0]

\* A constructor that starts from default data whatever it is given.
Lathe_new_default(data) == [state |-> "Off", data |-> [revs |-> 0, feed |-> 0]]
Lathe_new(data) == [state |-> "Off", data |-> data]
\* A notaus that clears the data as it stops the lathe.
notaus_clear(d) == [revs |-> 0, feed |-> 0]
notaus(d) == d
\* A start_spinning that builds a fresh record around revs.
start_spinning_fresh(d, revs) == [revs |-> revs, feed |-> 0]
start_spinning(d, revs) == [d EXCEPT !.revs = revs]
feed(d, f) == [d EXCEPT !.feed = f]
off(d) == LatheDataDefault
\* A stop_feed that only re-tags the lathe and leaves the feed set.
stop_feed_keep(d) == d
\* A stop_feed that clears the whole record, as off does.
stop_feed_all(d) == [revs |-> 0, feed |-> 0]
stop_feed(d) == [d EXCEPT !.feed = 0]
\* An acknowledge that only re-tags the lathe, as notaus does.
acknowledge_keep(d) == d
acknowledge(d) == LatheDataDefault

Result(s, d, r) == [w |-> [state |-> s, data |-> d], resp |-> r]

\* StateHandler2 for Lathe<Off>
Lathe_Off_handle_cmd(d, cmd) ==
    CASE cmd[1] = "StartSpinning" ->
            Result("Spinning", start_spinning(d, cmd[2]), Status("Spinning"))
      [] cmd[1] = "Notaus" -> Result("Notaus", notaus(d), Status("Notaus"))
      [] OTHER -> Result("Off", d, InvalidTransition("Off", cmd))

\* StateHandler2 for Lathe<Spinning>
Lathe_Spinning_handle_cmd(d, cmd) ==
    CASE cmd[1] = "Feed" -> Result("Feeding", feed(d, cmd[2]), Status("Feeding"))
      [] cmd[1] = "StopSpinning" -> Result("Off", off(d), Status("Off"))
      [] cmd[1] = "Notaus" -> Result("Notaus", notaus(d), Status("Notaus"))
      [] OTHER -> Result("Spinning", d, InvalidTransition("Spinning", cmd))

\* A Feeding handler without the Notaus arm.
Lathe_Feeding_no_notaus(d, cmd) ==
    CASE cmd[1] = "StopFeed" -> Result("Spinning", stop_feed(d), Status("Spinning"))
      [] OTHER -> Result("Feeding", d, InvalidTransition("Feeding", cmd))

\* StateHandler2 for Lathe<Feeding>
Lathe_Feeding_handle_cmd(d, cmd) ==
    CASE cmd[1] = "StopFeed" -> Result("Spinning", stop_feed(d), Status("Spinning"))
      [] cmd[1] = "Notaus" -> Result("Notaus", notaus(d), Status("Notaus"))
      [] OTHER -> Result("Feeding", d, InvalidTransition("Feeding", cmd))

\* StateHandler2 for Lathe<Notaus>
Lathe_Notaus_handle_cmd(d, cmd) ==
    CASE cmd[1] = "Acknowledge" -> Result("Off", acknowledge(d), Status("Off"))
      [] OTHER -> Result("Notaus", d, InvalidTransition("Notaus", cmd))

\* LatheWrapper::handle_cmd: dispatch on the active variant.
LatheWrapper_handle_cmd(w, cmd) ==
    CASE w.state = "Off" -> Lathe_Off_handle_cmd(w.data, cmd)
      [] w.state = "Spinning" -> Lathe_Spinning_handle_cmd(w.data, cmd)
      [] w.state = "Feeding" -> Lathe_Feeding_handle_cmd(w.data, cmd)
      [] w.state = "Notaus" -> Lathe_Notaus_handle_cmd(w.data, cmd)

\* The lathe's other dispatcher: LatheActor and the StateHandler impls
\* (lathe.rs 138-260), over the same transition functions.

\* StateHandler for Lathe<Off>
LatheActor_Off_handle_command(d, cmd) ==
    CASE cmd[1] = "StartSpinning" ->
            Result("Spinning", start_spinning(d, cmd[2]), Status("Spinning"))
      [] cmd[1] = "Notaus" -> Result("Notaus", notaus(d), Status("Notaus"))
      [] OTHER -> Result("Off", d, InvalidTransition("Off", cmd))

\* StateHandler for Lathe<Spinning>
LatheActor_Spinning_handle_command(d, cmd) ==
    CASE cmd[1] = "Feed" -> Result("Feeding", feed(d, cmd[2]), Status("Feeding"))
      [] cmd[1] = "StopSpinning" -> Result("Off", off(d), Status("Off"))
      [] cmd[1] = "Notaus" -> Result("Notaus", notaus(d), Status("Notaus"))
      [] OTHER -> Result("Spinning", d, InvalidTransition("Spinning", cmd))

\* StateHandler for Lathe<Feeding>
LatheActor_Feeding_handle_command(d, cmd) ==
    CASE cmd[1] = "StopFeed" -> Result("Spinning", stop_feed(d), Status("Spinning"))
      [] cmd[1] = "Notaus" -> Result("Notaus", notaus(d), Status("Notaus"))
      [] OTHER -> Result("Feeding", d, InvalidTransition("Feeding", cmd))

\* A Notaus handler that accepts a repeated Notaus.
LatheActor_Notaus_accepts_notaus(d, cmd) ==
    CASE cmd[1] = "Acknowledge" -> Result("Off", acknowledge(d), Status("Off"))
      [] cmd[1] = "Notaus" -> Result("Notaus", notaus(d), Status("Notaus"))
      [] OTHER -> Result("Notaus", d, InvalidTransition("Notaus", cmd))

\* StateHandler for Lathe<Notaus>
LatheActor_Notaus_handle_command(d, cmd) ==
    CASE cmd[1] = "Acknowledge" -> Result("Off", acknowledge(d), Status("Off"))
      [] OTHER -> Result("Notaus", d, InvalidTransition("Notaus", cmd))

\* LatheActor::handle_command: dispatch on the active variant.
LatheActor_handle_command(w, cmd) ==
    CASE w.state = "Off" -> LatheActor_Off_handle_command(w.data, cmd)
      [] w.state = "Spinning" -> LatheActor_Spinning_handle_command(w.data, cmd)
      [] w.state = "Feeding" -> LatheActor_Feeding_handle_command(w.data, cmd)
      [] w.state = "Notaus" -> LatheActor_Notaus_handle_command(w.data, cmd)

----------------------------------------------------------------------------
\* The mill: a rust-fsm machine plus data (mill.rs 34-117).

MillStates == {"Off", "Spinning", "Moving"}
MillData == [revs : Params, linear_move : MoveParams]
MillDataDefault == [revs |-> 0, linear_move |-> 0]

MillFSM_new == [state |-> "Off", data |-> MillDataDefault]

\* A machine definition whose Move leads to the lathe's state name.
mill_fsm_consume_lathe(s, input) ==
    CASE s = "Off" /\ input = "StartSpinning" ->
            [ok |-> TRUE, state |-> "Spinning", output |-> "SpinningStarted"]
      [] s = "Spinning" /\ input = "StopSpinning" ->
            [ok |-> TRUE, state |-> "Off", output |-> "SpinningStopped"]
      [] s = "Spinning" /\ input = "Move" ->
            [ok |-> TRUE, state |-> "Feeding", output |-> "MovingStarted"]
      [] OTHER -> [ok |-> FALSE, state |-> s, output |-> "TransitionImpossible"]

\* A machine definition that lacks the Spinning(Move) => Moving row.
mill_fsm_consume_nomove(s, input) ==
    CASE s = "Off" /\ input = "StartSpinning" ->
            [ok |-> TRUE, state |-> "Spinning", output |-> "SpinningStarted"]
      [] s = "Spinning" /\ input = "StopSpinning" ->
            [ok |-> TRUE, state |-> "Off", output |-> "SpinningStopped"]
      [] s = "Moving" /\ input = "StopMoving" ->
            [ok |-> TRUE, state |-> "Spinning", output |-> "MovingStopped"]
      [] OTHER -> [ok |-> FALSE, state |-> s, output |-> "TransitionImpossible"]

\* state_machine! mill_fsm: consume(input) in a state gives the next state and
\* the output, or an error when the DSL declares no such transition.
mill_fsm_consume(s, input) ==
    CASE s = "Off" /\ input = "StartSpinning" ->
            [ok |-> TRUE, state |-> "Spinning", output |-> "SpinningStarted"]
      [] s = "Spinning" /\ input = "StopSpinning" ->
            [ok |-> TRUE, state |-> "Off", output |-> "SpinningStopped"]
      [] s = "Spinning" /\ input = "Move" ->
            [ok |-> TRUE, state |-> "Moving", output |-> "MovingStarted"]
      [] s = "Moving" /\ input = "StopMoving" ->
            [ok |-> TRUE, state |-> "Spinning", output |-> "MovingStopped"]
      [] OTHER -> [ok |-> FALSE, state |-> s, output |-> "TransitionImpossible"]

\* An arm that answers with the name of the state the mill was in.
MillArmStale(w, cmd, d, input, expected, name) ==
    Result(mill_fsm_consume(w.state, input).state, d, Status(w.state))

\* One arm of the match in MillFSM::handle_command: the data is written first,
\* then the machine consumes the input; the response names `name` only when
\* the machine answered Ok(Some(expected)).
MillArm(w, cmd, d, input, expected, name) ==
    LET c == mill_fsm_consume(w.state, input)
        r == IF c.ok /\ c.output = expected
                 THEN Status(name)
                 ELSE InvalidTransition(w.state, cmd)
    IN  Result(c.state, d, r)

\* A handle_command whose StopMoving arm leaves linear_move set.
MillFSM_handle_command_keep(w, cmd) ==
    CASE cmd[1] = "StartSpinning" /\ w.state = "Off" ->
            MillArm(w, cmd, [w.data EXCEPT !.revs = cmd[2]],
                    "StartSpinning", "SpinningStarted", "Spinning")
      [] cmd[1] = "StopSpinning" /\ w.state = "Spinning" ->
            MillArm(w, cmd, [w.data EXCEPT !.revs = 0],
                    "StopSpinning", "SpinningStopped", "Off")
      [] cmd[1] = "Move" /\ w.state = "Spinning" ->
            MillArm(w, cmd, [w.data EXCEPT !.linear_move = cmd[2]],
                    "Move", "MovingStarted", "Moving")
      [] cmd[1] = "StopMoving" /\ w.state = "Moving" ->
            MillArm(w, cmd, w.data, "StopMoving", "MovingStopped", "Spinning")
      [] OTHER -> Result(w.state, w.data, InvalidTransition(w.state, cmd))

\* A handle_command whose Move arm writes revs instead of linear_move.
MillFSM_handle_command_revs(w, cmd) ==
    CASE cmd[1] = "StartSpinning" /\ w.state = "Off" ->
            MillArm(w, cmd, [w.data EXCEPT !.revs = cmd[2]],
                    "StartSpinning", "SpinningStarted", "Spinning")
      [] cmd[1] = "StopSpinning" /\ w.state = "Spinning" ->
            MillArm(w, cmd, [w.data EXCEPT !.revs = 0],
                    "StopSpinning", "SpinningStopped", "Off")
      [] cmd[1] = "Move" /\ w.state = "Spinning" ->
            MillArm(w, cmd, [w.data EXCEPT !.revs = 0],
                    "Move", "MovingStarted", "Moving")
      [] cmd[1] = "StopMoving" /\ w.state = "Moving" ->
            MillArm(w, cmd, [w.data EXCEPT !.linear_move = 0],
                    "StopMoving", "MovingStopped", "Spinning")
      [] OTHER -> Result(w.state, w.data, InvalidTransition(w.state, cmd))

MillFSM_handle_command(w, cmd) ==
    CASE cmd[1] = "StartSpinning" /\ w.state = "Off" ->
            MillArm(w, cmd, [w.data EXCEPT !.revs = cmd[2]],
                    "StartSpinning", "SpinningStarted", "Spinning")
      [] cmd[1] = "StopSpinning" /\ w.state = "Spinning" ->
            MillArm(w, cmd, [w.data EXCEPT !.revs = 0],
                    "StopSpinning", "SpinningStopped", "Off")
      [] cmd[1] = "Move" /\ w.state = "Spinning" ->
            MillArm(w, cmd, [w.data EXCEPT !.linear_move = cmd[2]],
                    "Move", "MovingStarted", "Moving")
      [] cmd[1] = "StopMoving" /\ w.state = "Moving" ->
            MillArm(w, cmd, [w.data EXCEPT !.linear_move = 0],
                    "StopMoving", "MovingStopped", "Spinning")
      [] OTHER -> Result(w.state, w.data, InvalidTransition(w.state, cmd))

\* The handler the worker of a machine of kind k applies.
handle_cmd(k, w, cmd) ==
    IF k = "lathe" THEN LatheWrapper_handle_cmd(w, cmd)
                   ELSE MillFSM_handle_command(w, cmd)

----------------------------------------------------------------------------
\* The controller, the worker thread and the channels between them.

VARIABLES
    kind,            \* which machine this controller drives
    initData,        \* the data handed to create
    wrapper,         \* the worker's machine: [state, data]
    cmdQ,            \* command channel (cmd_tx -> cmd_rx)
    respQ,           \* response channel (response_tx -> response_rx)
    shutQ,           \* mill: messages in the shutdown channel
    ctl,             \* where the controller is in its life
    wpc,             \* where the worker is in its loop
    inflight,        \* the command the worker took and has not handled yet
    submitted,       \* history: commands send_command accepted, in order
    polled,          \* history: the vectors check_responses returned, concatenated
    handled,         \* history: commands the worker finished handling
    published,       \* history: responses the worker's send delivered
    last,            \* history: the last handling step, <<>> before the first
    lastSend,        \* history: what the last send_command returned
    lastPoll,        \* history: <<v>> while the controller's latest call is a
                     \* check_responses that returned v, <<>> otherwise
    lastStatus,      \* history: the state the last Status response named
    lastPublished,   \* history: the state named by the last Status delivered
    shutdownResult   \* what shutdown returned, "none" before it returns

vars == <<kind, initData, wrapper, cmdQ, respQ, shutQ, ctl, wpc, inflight,
          submitted, polled, handled, published, last, lastSend, lastPoll,
          lastStatus, lastPublished, shutdownResult>>

hist == <<submitted, polled, handled, published, last, lastSend, lastStatus,
          lastPublished>>

\* Which channel ends the controller still holds, by its position.
CmdTxAlive == ctl \in {"alive", "drop_tx"}
RespRxAlive == ctl \in {"alive", "joining", "drop_tx", "drop_rx"}
ShutTxAlive == ctl # "dropped"
\* The worker's ends (cmd_rx, response_tx, shutdown_rx) live as long as its thread.
WorkerAlive == wpc # "stopped"

DataOf(k) == IF k = "lathe" THEN LatheData ELSE MillData

\* The data a caller hands to create: the default, or data with every field set.
InitDatas(k) ==
    IF k = "lathe"
        THEN {LatheDataDefault, [revs |-> MaxParam, feed |-> MaxParam]}
        ELSE {MillDataDefault, [revs |-> MaxParam, linear_move |-> 0 - MaxParam]}

\* The machine a new controller starts its worker with: FsmWrapper::from(data)
\* for the lathe, MillFSM::new() for the mill (whose create ignores the data).
create(k, data) == IF k = "lathe" THEN Lathe_new(data) ELSE MillFSM_new

\* MachineController::new / FsmController::create and MillController::new.
Init ==
    /\ kind \in Kinds
    /\ initData \in InitDatas(kind)
    /\ wrapper = create(kind, initData)
    /\ cmdQ = <<>> /\ respQ = <<>> /\ shutQ = 0
    /\ ctl = "alive"
    /\ wpc = IF kind = "lathe" THEN "recv" ELSE "check"
    /\ inflight = <<>>
    /\ submitted = <<>> /\ polled = <<>> /\ handled = 0 /\ published = 0
    /\ last = <<>> /\ lastSend = "none" /\ shutdownResult = "none"
    /\ lastPoll = <<>> /\ lastStatus = wrapper.state
    /\ lastPublished = wrapper.state

\* A send on a channel of capacity one: it fails when a command is waiting.
SendOkBounded == WorkerAlive /\ cmdQ = <<>>

\* mpsc::Sender::send: fails exactly when the receiver has been dropped.
SendOk == WorkerAlive

\* A send_command that applies the command to the machine on the caller's
\* thread instead of queueing it for the worker.
send_command_direct(cmd) ==
    /\ ctl = "alive"
    /\ Len(submitted) < MaxCmds
    /\ wrapper' = handle_cmd(kind, wrapper, cmd).w
    /\ submitted' = Append(submitted, cmd)
    /\ lastSend' = "Ok"
    /\ UNCHANGED <<kind, initData, cmdQ, respQ, shutQ, ctl, wpc, inflight,
                   polled, handled, published, last, lastStatus, lastPublished,
                   shutdownResult>>
    /\ lastPoll' = <<>>

\* send_command(&self, cmd)
send_command(cmd) ==
    /\ ctl = "alive"
    /\ Len(submitted) < MaxCmds
    /\ IF SendOk
           THEN /\ cmdQ' = Append(cmdQ, cmd)
                /\ submitted' = Append(submitted, cmd)
                /\ lastSend' = "Ok"
           ELSE /\ UNCHANGED <<cmdQ, submitted>>
                /\ lastSend' = "Err"
    /\ UNCHANGED <<kind, initData, wrapper, respQ, shutQ, ctl, wpc, inflight,
                   polled, handled, published, last, lastStatus, lastPublished,
                   shutdownResult>>
    /\ lastPoll' = <<>>

\* A poll that takes one response: `if let` where the code has `while let`.
TryRecvOne(q) ==
    IF q = <<>> THEN [got |-> <<>>, rest |-> <<>>]
                ELSE [got |-> <<Head(q)>>, rest |-> Tail(q)]

\* `while let Ok(response) = self.response_rx.try_recv()`: every buffered
\* response is pushed on the vector, oldest first, until try_recv finds none.
TryRecvAll(q) == [got |-> q, rest |-> <<>>]

\* A check_responses that starts with recv where the code has try_recv: the
\* caller waits until a response is there.
check_responses_recv ==
    /\ ctl = "alive"
    /\ respQ # <<>>
    /\ polled' = polled \o TryRecvAll(respQ).got
    /\ lastPoll' = <<TryRecvAll(respQ).got>>
    /\ respQ' = TryRecvAll(respQ).rest
    /\ UNCHANGED <<kind, initData, wrapper, cmdQ, shutQ, ctl, wpc, inflight,
                   submitted, handled, published, last, lastSend, lastStatus,
                   lastPublished,
                   shutdownResult>>

\* check_responses(&self): try_recv until the channel is empty.
check_responses ==
    /\ ctl = "alive"
    /\ polled' = polled \o TryRecvAll(respQ).got
    /\ lastPoll' = <<TryRecvAll(respQ).got>>
    /\ respQ' = TryRecvAll(respQ).rest
    /\ UNCHANGED <<kind, initData, wrapper, cmdQ, shutQ, ctl, wpc, inflight,
                   submitted, handled, published, last, lastSend, lastStatus,
                   lastPublished,
                   shutdownResult>>

\* MachineController::shutdown(self), first half: drop(self.cmd_tx).
shutdown_begin ==
    /\ kind = "lathe"
    /\ ctl = "alive"
    /\ ctl' = "joining"
    /\ UNCHANGED <<kind, initData, wrapper, cmdQ, respQ, shutQ, wpc, inflight,
                   shutdownResult>>
    /\ lastPoll' = <<>>
    /\ UNCHANGED hist

\* A shutdown that does not wait for the thread.
JoinReturnsAtOnce == TRUE

\* JoinHandle::join returns once the thread has finished.
JoinReturns == wpc = "stopped"

\* MachineController::shutdown(self), second half: join, then the rest of self
\* (response_rx, with whatever it still buffers) is dropped as the call returns.
shutdown_join ==
    /\ kind = "lathe"
    /\ ctl = "joining"
    /\ JoinReturns
    /\ ctl' = "done"
    /\ shutdownResult' = "Ok"
    /\ respQ' = <<>>
    /\ UNCHANGED <<kind, initData, wrapper, cmdQ, shutQ, wpc, inflight>>
    /\ UNCHANGED lastPoll
    /\ UNCHANGED hist

\* Drop for MillController: shutdown_tx.send(()), before the fields go.
mill_drop ==
    /\ kind = "mill"
    /\ ctl = "alive"
    /\ ctl' = "drop_tx"
    /\ shutQ' = IF WorkerAlive THEN shutQ + 1 ELSE shutQ
    /\ UNCHANGED <<kind, initData, wrapper, cmdQ, respQ, wpc, inflight,
                   shutdownResult>>
    /\ lastPoll' = <<>>
    /\ UNCHANGED hist

\* The controller goes out of scope: cmd_tx is the first field dropped.
drop_cmd_tx ==
    /\ \/ kind = "lathe" /\ ctl = "alive"
       \/ kind = "mill" /\ ctl = "drop_tx"
    /\ ctl' = "drop_rx"
    /\ UNCHANGED <<kind, initData, wrapper, cmdQ, respQ, shutQ, wpc, inflight,
                   shutdownResult>>
    /\ lastPoll' = <<>>
    /\ UNCHANGED hist

\* ... then response_rx (its buffered responses go with it) and thread_handle,
\* whose drop detaches the thread without waiting for it.
drop_response_rx ==
    /\ ctl = "drop_rx"
    /\ ctl' = IF kind = "lathe" THEN "dropped" ELSE "drop_shut"
    /\ respQ' = <<>>
    /\ UNCHANGED <<kind, initData, wrapper, cmdQ, shutQ, wpc, inflight,
                   shutdownResult>>
    /\ UNCHANGED lastPoll
    /\ UNCHANGED hist

\* ... and last, for the mill, shutdown_tx.
drop_shutdown_tx ==
    /\ ctl = "drop_shut"
    /\ ctl' = "dropped"
    /\ UNCHANGED <<kind, initData, wrapper, cmdQ, respQ, shutQ, wpc, inflight,
                   shutdownResult>>
    /\ UNCHANGED lastPoll
    /\ UNCHANGED hist

----------------------------------------------------------------------------
\* The worker thread.

\* A receive that takes the newest message instead of the oldest.
RecvNewest(q) == [cmd |-> q[Len(q)], rest |-> SubSeq(q, 1, Len(q) - 1)]

\* Receiver::recv / recv_timeout on a non-empty channel: the oldest message.
Recv(q) == [cmd |-> Head(q), rest |-> Tail(q)]

\* A worker that handles the command but keeps the wrapper it had.
KeepWrapper(r) == wrapper

\* The wrapper the worker holds after a command: `self.fsm_wrapper = new_actor`
\* (the mill's handle_command updates its machine in place).
NewWrapper(r) == r.w

\* What handling the in-flight command leaves behind, with the response sent
\* on response_tx: delivered when response_rx still exists, lost otherwise.
Handle(next_pc, stop_pc) ==
    LET cmd == inflight[1]
        r == handle_cmd(kind, wrapper, cmd)
    IN  /\ wrapper' = NewWrapper(r)
        /\ inflight' = <<>>
        /\ handled' = handled + 1
        /\ last' = <<[pre |-> wrapper, cmd |-> cmd, post |-> r.w, resp |-> r.resp]>>
        /\ lastStatus' = IF r.resp.tag = "Status" THEN r.resp.state ELSE lastStatus
        /\ IF RespRxAlive
               THEN /\ respQ' = Append(respQ, r.resp)
                    /\ published' = published + 1
                    /\ lastPublished' = IF r.resp.tag = "Status"
                                            THEN r.resp.state ELSE lastPublished
                    /\ wpc' = next_pc
                    /\ UNCHANGED cmdQ
               ELSE /\ UNCHANGED <<respQ, published, lastPublished>>
                    /\ wpc' = stop_pc
                    /\ cmdQ' = IF stop_pc = "stopped" THEN <<>> ELSE cmdQ

\* A worker that keeps a sender of its own: recv on the empty channel waits
\* whatever became of the controller's cmd_tx.
run_recv_waits ==
    /\ kind = "lathe"
    /\ wpc = "recv"
    /\ cmdQ # <<>>
    /\ inflight' = <<Recv(cmdQ).cmd>>
    /\ cmdQ' = Recv(cmdQ).rest
    /\ wpc' = "handle"
    /\ UNCHANGED <<kind, initData, wrapper, respQ, shutQ, ctl, shutdownResult>>
    /\ UNCHANGED lastPoll
    /\ UNCHANGED hist

\* MachineThread::run, `while let Ok(cmd) = self.cmd_rx.recv()`: recv blocks
\* while the channel is empty and a sender exists, and fails once it is empty
\* and every sender is gone.
run_recv ==
    /\ kind = "lathe"
    /\ wpc = "recv"
    /\ IF cmdQ # <<>>
           THEN /\ inflight' = <<Recv(cmdQ).cmd>>
                /\ cmdQ' = Recv(cmdQ).rest
                /\ wpc' = "handle"
           ELSE /\ ~CmdTxAlive
                /\ wpc' = "stopped"
                /\ UNCHANGED <<inflight, cmdQ>>
    /\ UNCHANGED <<kind, initData, wrapper, respQ, shutQ, ctl, shutdownResult>>
    /\ UNCHANGED lastPoll
    /\ UNCHANGED hist

\* MachineThread::run, the loop body: handle_cmd, replace the wrapper,
\* `let _ = self.response_tx.send(response)` (a failed send is ignored).
run_handle ==
    /\ kind = "lathe"
    /\ wpc = "handle"
    /\ Handle("recv", "recv")
    /\ UNCHANGED <<kind, initData, shutQ, ctl, submitted, polled, lastSend,
                   lastPoll, shutdownResult>>

\* A worker whose loop is entered again after it has ended.
mill_check_shutdown_again ==
    /\ kind = "mill"
    /\ wpc \in {"check", "stopped"}
    /\ IF shutQ > 0
           THEN /\ shutQ' = shutQ - 1
                /\ wpc' = "stopped"
                /\ cmdQ' = <<>>
           ELSE /\ wpc' = IF ShutTxAlive THEN "recv" ELSE "stopped"
                /\ cmdQ' = IF ShutTxAlive THEN cmdQ ELSE <<>>
                /\ UNCHANGED shutQ
    /\ UNCHANGED <<kind, initData, wrapper, respQ, ctl, inflight, shutdownResult>>
    /\ UNCHANGED lastPoll
    /\ UNCHANGED hist

\* Mill worker, top of the loop: shutdown_rx.try_recv().
mill_check_shutdown ==
    /\ kind = "mill"
    /\ wpc = "check"
    /\ IF shutQ > 0
           THEN /\ shutQ' = shutQ - 1
                /\ wpc' = "stopped"
                /\ cmdQ' = <<>>
           ELSE /\ wpc' = IF ShutTxAlive THEN "recv" ELSE "stopped"
                /\ cmdQ' = IF ShutTxAlive THEN cmdQ ELSE <<>>
                /\ UNCHANGED shutQ
    /\ UNCHANGED <<kind, initData, wrapper, respQ, ctl, inflight, shutdownResult>>
    /\ UNCHANGED lastPoll
    /\ UNCHANGED hist

\* A worker loop that breaks on a timeout as it does on a disconnect.
mill_recv_timeout_breaks ==
    /\ kind = "mill"
    /\ wpc = "recv"
    /\ IF cmdQ # <<>>
           THEN /\ inflight' = <<Recv(cmdQ).cmd>>
                /\ cmdQ' = Recv(cmdQ).rest
                /\ wpc' = "handle"
           ELSE /\ wpc' = "stopped"
                /\ UNCHANGED <<inflight, cmdQ>>
    /\ UNCHANGED <<kind, initData, wrapper, respQ, shutQ, ctl, shutdownResult>>
    /\ UNCHANGED lastPoll
    /\ UNCHANGED hist

\* Mill worker: cmd_rx.recv_timeout(timeout) gives a command, times out (back
\* to the top of the loop) or finds the sender gone.
mill_recv ==
    /\ kind = "mill"
    /\ wpc = "recv"
    /\ IF cmdQ # <<>>
           THEN /\ inflight' = <<Recv(cmdQ).cmd>>
                /\ cmdQ' = Recv(cmdQ).rest
                /\ wpc' = "handle"
           ELSE /\ wpc' = IF CmdTxAlive THEN "check" ELSE "stopped"
                /\ UNCHANGED <<inflight, cmdQ>>
    /\ UNCHANGED <<kind, initData, wrapper, respQ, shutQ, ctl, shutdownResult>>
    /\ UNCHANGED lastPoll
    /\ UNCHANGED hist

\* Mill worker: handle_command, then response_tx.send; a failed send ends the loop.
mill_handle ==
    /\ kind = "mill"
    /\ wpc = "handle"
    /\ Handle("check", "stopped")
    /\ UNCHANGED <<kind, initData, shutQ, ctl, submitted, polled, lastSend,
                   lastPoll, shutdownResult>>

Next ==
    \/ \E cmd \in CommandsOf(kind) : send_command(cmd)
    \/ check_responses
    \/ shutdown_begin
    \/ shutdown_join
    \/ mill_drop
    \/ drop_cmd_tx
    \/ drop_response_rx
    \/ drop_shutdown_tx
    \/ run_recv
    \/ run_handle
    \/ mill_check_shutdown
    \/ mill_recv
    \/ mill_handle

Spec == Init /\ [][Next]_vars

\* The steps of the worker thread. The thread is spawned by
\* MachineController::new / MillController::new and scheduled by the operating
\* system: a step it can take is taken eventually (recv wakes when a command
\* arrives or the last sender goes, recv_timeout returns after its timeout).
WorkerStep ==
    run_recv \/ run_handle \/ mill_check_shutdown \/ mill_recv \/ mill_handle

FairSpec == Spec /\ WF_vars(WorkerStep)

----------------------------------------------------------------------------
\* The machine on its own, as the unit tests drive it: a wrapper built from
\* any data, and handle_cmd / handle_command called on it directly, command
\* after command, with no controller or worker in between.

InitMachine ==
    /\ kind \in Kinds
    /\ initData \in DataOf(kind)
    /\ wrapper = create(kind, initData)
    /\ cmdQ = <<>> /\ respQ = <<>> /\ shutQ = 0
    /\ ctl = "none" /\ wpc = "none"
    /\ inflight = <<>>
    /\ submitted = <<>> /\ polled = <<>> /\ handled = 0 /\ published = 0
    /\ last = <<>> /\ lastSend = "none" /\ shutdownResult = "none"
    /\ lastPoll = <<>> /\ lastStatus = wrapper.state
    /\ lastPublished = wrapper.state

apply_cmd(cmd) ==
    LET r == handle_cmd(kind, wrapper, cmd)
    IN  /\ wrapper' = r.w
        /\ last' = <<[pre |-> wrapper, cmd |-> cmd, post |-> r.w, resp |-> r.resp]>>
        /\ lastStatus' = IF r.resp.tag = "Status" THEN r.resp.state ELSE lastStatus
        /\ UNCHANGED <<kind, initData, cmdQ, respQ, shutQ, ctl, wpc, inflight,
                       submitted, polled, handled, published, lastSend, lastPoll,
                       lastPublished, shutdownResult>>

NextMachine == \E cmd \in CommandsOf(kind) : apply_cmd(cmd)

MachineSpec == InitMachine /\ [][NextMachine]_vars

----------------------------------------------------------------------------
\* The declared transitions, read off the handlers' match arms (lathe) and the
\* state_machine! definition (mill): <<from state, command, destination>>.

LatheTable ==
    { <<"Off", "StartSpinning", "Spinning">>, <<"Off", "Notaus", "Notaus">>,
      <<"Spinning", "Feed", "Feeding">>, <<"Spinning", "StopSpinning", "Off">>,
      <<"Spinning", "Notaus", "Notaus">>,
      <<"Feeding", "StopFeed", "Spinning">>, <<"Feeding", "Notaus", "Notaus">>,
      <<"Notaus", "Acknowledge", "Off">> }

MillTable ==
    { <<"Off", "StartSpinning", "Spinning">>,
      <<"Spinning", "StopSpinning", "Off">>, <<"Spinning", "Move", "Moving">>,
      <<"Moving", "StopMoving", "Spinning">> }

TableOf(k) == IF k = "lathe" THEN LatheTable ELSE MillTable
StatesOf(k) == IF k = "lathe" THEN LatheStates ELSE MillStates

Declared(k, s, cmd) == \E t \in TableOf(k) : t[1] = s /\ t[2] = cmd[1]
Destination(k, s, cmd) ==
    (CHOOSE t \in TableOf(k) : t[1] = s /\ t[2] = cmd[1])[3]

\* The data each command's transition is declared to leave behind.
DeclaredData(k, d, cmd) ==
    IF k = "lathe"
        THEN CASE cmd[1] = "StartSpinning" -> [revs |-> cmd[2], feed |-> d.feed]
               [] cmd[1] = "Feed" -> [revs |-> d.revs, feed |-> cmd[2]]
               [] cmd[1] = "StopFeed" -> [revs |-> d.revs, feed |-> 0]
               [] cmd[1] = "StopSpinning" -> [revs |-> 0, feed |-> 0]
               [] cmd[1] = "Acknowledge" -> [revs |-> 0, feed |-> 0]
               [] cmd[1] = "Notaus" -> d
        ELSE CASE cmd[1] = "StartSpinning" ->
                      [revs |-> cmd[2], linear_move |-> d.linear_move]
               [] cmd[1] = "StopSpinning" ->
                      [revs |-> 0, linear_move |-> d.linear_move]
               [] cmd[1] = "Move" -> [revs |-> d.revs, linear_move |-> cmd[2]]
               [] cmd[1] = "StopMoving" -> [revs |-> d.revs, linear_move |-> 0]

\* Every Response value a machine of kind k may return.
ResponsesOf(k) ==
    {Status(st) : st \in StatesOf(k)}
        \cup {InvalidTransition(st, c) : st \in StatesOf(k), c \in CommandsOf(k)}

\* A fresh machine fed cmds one after the other, with nothing in between: the
\* machine it ends as and the responses it gives, in order.
RECURSIVE Replay(_, _, _)
Replay(k, w, cmds) ==
    IF cmds = <<>>
        THEN [w |-> w, resps |-> <<>>]
        ELSE LET r == handle_cmd(k, w, Head(cmds))
                 rest == Replay(k, r.w, Tail(cmds))
             IN  [w |-> rest.w, resps |-> <<r.resp>> \o rest.resps]

Expected == Replay(kind, create(kind, initData), submitted).resps

IsPrefix(a, b) == Len(a) <= Len(b) /\ a = SubSeq(b, 1, Len(a))

----------------------------------------------------------------------------
\* C1 - Order preservation: the vectors check_responses has returned,
\* concatenated, are the responses to the submitted commands in submission
\* order (the k-th answers the k-th command), the response channel continues
\* them in the same order, and while the controller lives every submitted
\* command is accounted for exactly once: answered, in flight or still queued.
OrderPreserved ==
    /\ IsPrefix(polled, Expected)
    /\ RespRxAlive => IsPrefix(polled \o respQ, Expected)
    /\ ctl = "alive" =>
          Len(polled) + Len(respQ) + Len(inflight) + Len(cmdQ) = Len(submitted)

OrderWitness ==
    /\ Len(polled) = 2 /\ polled[1] # polled[2]
    /\ polled[1].tag = "Status" /\ polled[2].tag = "Status"

\* C2 - Shutdown drains in-flight work: once shutdown has returned, the
\* response to every command submitted before it has been polled or is still
\* there for the controller to poll.
ShutdownKeepsResponses ==
    ctl = "done" => polled \o respQ = Expected

\* C3 - Exactly one response per handled command: the responses the worker
\* published are as many as the commands it finished handling.
OneResponsePerCommand == published = handled

\* C4 - Totality: handling any command in any state gives one Response, a
\* Status or an InvalidTransition of the machine, and a wrapper in a declared
\* state holding data of the machine.
Totality ==
    last # <<>> =>
        /\ last[1].pre.state \in StatesOf(kind)
        /\ last[1].cmd \in CommandsOf(kind)
        /\ last[1].resp \in ResponsesOf(kind)
        /\ last[1].post.state \in StatesOf(kind)
        /\ last[1].post.data \in DataOf(kind)
        /\ wrapper = last[1].post

TotalityWitness ==
    /\ last # <<>> /\ kind = "mill"
    /\ last[1].pre.state = "Spinning" /\ last[1].cmd = <<"Move", 0 - 1>>
    /\ last[1].post.state = "Moving"

\* C5 - Rejection leaves the machine unchanged: a command not declared for the
\* current state leaves state and data as they were and is answered with
\* InvalidTransition naming the state before the command and the command as
\* Debug prints it, parameter included ("Feed(1)", "StopFeed", "Move(-1)").
RejectionUnchanged ==
    (last # <<>> /\ ~Declared(kind, last[1].pre.state, last[1].cmd)) =>
        /\ last[1].post = last[1].pre
        /\ last[1].resp.tag = "InvalidTransition"
        /\ last[1].resp.current_state = last[1].pre.state
        /\ last[1].resp.attempted_command = DebugFmt(last[1].cmd)
        /\ last[1].cmd = <<"Feed", 1>> => last[1].resp.attempted_command = "Feed(1)"
        /\ last[1].cmd = <<"StopFeed">> => last[1].resp.attempted_command = "StopFeed"
        /\ last[1].cmd = <<"Move", 0 - 1>> =>
              last[1].resp.attempted_command = "Move(-1)"

RejectionWitness ==
    /\ last # <<>> /\ kind = "lathe"
    /\ last[1].pre = [state |-> "Off", data |-> [revs |-> 1, feed |-> 1]]
    /\ last[1].cmd = <<"Feed", 1>>
    /\ last[1].resp.tag = "InvalidTransition"

\* C6 - Accepted transition: a command declared for the current state moves
\* the wrapper to the declared destination, leaves the declared data, and is
\* answered with Status naming the wrapper's new state.
AcceptedTransition ==
    (last # <<>> /\ Declared(kind, last[1].pre.state, last[1].cmd)) =>
        /\ last[1].post.state = Destination(kind, last[1].pre.state, last[1].cmd)
        /\ last[1].post.data = DeclaredData(kind, last[1].pre.data, last[1].cmd)
        /\ last[1].resp = Status(last[1].post.state)

AcceptedWitness ==
    /\ last # <<>> /\ kind = "lathe"
    /\ last[1].pre = [state |-> "Feeding", data |-> [revs |-> 1, feed |-> 1]]
    /\ last[1].cmd = <<"StopFeed">>
    /\ last[1].post = [state |-> "Spinning", data |-> [revs |-> 1, feed |-> 0]]

\* C7 - Determinism: however worker steps, sends and polls interleave, the
\* machine after n handled commands, the last response and the responses given
\* so far are those of a fresh machine fed the first n submitted commands in
\* order; two runs on the same commands therefore agree.
Determinism ==
    LET run == Replay(kind, create(kind, initData), SubSeq(submitted, 1, handled))
    IN  /\ wrapper = run.w
        /\ last # <<>> => last[1].resp = run.resps[handled]
        /\ ctl = "alive" => polled \o respQ = run.resps

DeterminismWitness ==
    /\ handled = 2 /\ Len(polled) = 1 /\ Len(respQ) = 1
    /\ wrapper.state = "Moving" /\ wrapper.data.revs = 1

\* C8 - send_command enqueues the command and returns Ok; it returns an error
\* only once the worker has terminated, and a command it accepted while the
\* worker runs is never lost: it is queued, in flight or already handled.
SendEnqueues ==
    /\ lastSend = "Err" => ~WorkerAlive
    /\ lastSend = "Ok" => Len(submitted) >= 1
    /\ WorkerAlive =>
          cmdQ = SubSeq(submitted, handled + Len(inflight) + 1, Len(submitted))
    /\ inflight # <<>> => inflight[1] = submitted[handled + 1]

SendWitness ==
    /\ lastSend = "Ok" /\ Len(cmdQ) = 1 /\ inflight # <<>> /\ WorkerAlive
    /\ cmdQ[1] = submitted[2]

\* C9 - shutdown closes the command channel and returns only after the worker
\* thread has terminated, with Ok, having handled every submitted command.
ShutdownJoins ==
    /\ ctl \in {"joining", "done"} => ~CmdTxAlive
    /\ ctl = "done" <=> shutdownResult # "none"
    /\ ctl = "done" =>
          /\ wpc = "stopped"
          /\ shutdownResult = "Ok"
          /\ handled = Len(submitted)

ShutdownWitness == ctl = "done" /\ handled = 2 /\ wpc = "stopped"

\* C10 - Dropping the controller without shutdown waits for the worker too:
\* once the controller is gone the worker thread has terminated.
DropJoins == ctl = "dropped" => wpc = "stopped"

\* C12 - check_responses returns exactly what the response channel holds when
\* it is called, oldest first, and empties the channel; with nothing buffered
\* it returns the empty vector, whatever is queued or in flight, and it
\* touches nothing else.
PollDrains ==
    [][LET poll == /\ ctl = "alive" /\ ctl' = "alive"
                   /\ \/ lastPoll' # <<>> /\ lastPoll' # lastPoll
                      \/ polled' # polled
                      \/ Len(respQ') < Len(respQ)
       IN  poll =>
              /\ lastPoll' = <<respQ>>
              /\ polled' = polled \o respQ
              /\ respQ' = <<>>
              /\ UNCHANGED <<wrapper, cmdQ, inflight, wpc, submitted, handled>>]_vars

PollEmptyWitness ==
    /\ lastPoll = <<<<>>>> /\ respQ = <<>> /\ polled = <<>>
    /\ cmdQ # <<>> /\ inflight # <<>>

\* C13 (as amended) - Before any command is handled the machine is in Off; the
\* lathe holds the data handed to create, the mill holds default data whatever
\* it was handed.
CreateInitial ==
    handled = 0 =>
        /\ wrapper.state = "Off"
        /\ wrapper.data = IF kind = "lathe" THEN initData ELSE MillDataDefault

CreateWitness ==
    /\ kind = "lathe" /\ initData = [revs |-> 1, feed |-> 1]
    /\ handled = 0 /\ inflight # <<>> /\ wrapper.data = initData

\* C13 (as claimed) - Before any command is handled the machine is in Off with
\* the data handed to create.
CreateKeepsData ==
    handled = 0 => wrapper = [state |-> "Off", data |-> initData]

\* C14 (as amended) - Lathe emergency stop: Notaus in Spinning or Feeding is
\* answered Status Notaus and leads to Notaus; Notaus in Notaus is rejected
\* and changes nothing; Acknowledge in Notaus is answered Status Off and
\* leaves default data.
EmergencyStop ==
    (kind = "lathe" /\ last # <<>>) =>
        LET l == last[1] IN
        /\ (l.cmd = <<"Notaus">> /\ l.pre.state \in {"Spinning", "Feeding"}) =>
              /\ l.resp = [tag |-> "Status", state |-> "Notaus"]
              /\ l.post.state = "Notaus"
        /\ (l.cmd = <<"Notaus">> /\ l.pre.state = "Notaus") =>
              /\ l.resp = [tag |-> "InvalidTransition", current_state |-> "Notaus",
                           attempted_command |-> "Notaus"]
              /\ l.post = l.pre
        /\ (l.cmd = <<"Acknowledge">> /\ l.pre.state = "Notaus") =>
              /\ l.resp = [tag |-> "Status", state |-> "Off"]
              /\ l.post = [state |-> "Off", data |-> [revs |-> 0, feed |-> 0]]

EmergencyStopWitness ==
    /\ kind = "lathe" /\ last # <<>>
    /\ last[1].pre = [state |-> "Notaus", data |-> [revs |-> 1, feed |-> 1]]
    /\ last[1].cmd = <<"Acknowledge">>
    /\ wrapper = [state |-> "Off", data |-> [revs |-> 0, feed |-> 0]]

\* C14 (as claimed) - Notaus in any of Spinning, Feeding, Notaus is answered
\* Status Notaus.
EmergencyStopAnyNonOff ==
    (kind = "lathe" /\ last # <<>> /\ last[1].cmd = <<"Notaus">>
        /\ last[1].pre.state \in {"Spinning", "Feeding", "Notaus"}) =>
        last[1].resp = [tag |-> "Status", state |-> "Notaus"]

\* C15 - Lathe transition table: the eight listed transitions, and only they,
\* are accepted, each answered Status naming its destination; every other
\* state and command is answered InvalidTransition naming the current state,
\* and the lathe stays where it was (Feed(1) in Off: {Off, "Feed(1)"}).
LatheTransitions ==
    (kind = "lathe" /\ last # <<>>) =>
        LET l == last[1]
            listed == { <<"Off", "StartSpinning", "Spinning">>,
                        <<"Off", "Notaus", "Notaus">>,
                        <<"Spinning", "Feed", "Feeding">>,
                        <<"Spinning", "StopSpinning", "Off">>,
                        <<"Spinning", "Notaus", "Notaus">>,
                        <<"Feeding", "StopFeed", "Spinning">>,
                        <<"Feeding", "Notaus", "Notaus">>,
                        <<"Notaus", "Acknowledge", "Off">> }
            hit == {t \in listed : t[1] = l.pre.state /\ t[2] = l.cmd[1]}
        IN  /\ Cardinality(hit) <= 1
            /\ \A t \in hit :
                  l.post.state = t[3] /\ l.resp = [tag |-> "Status", state |-> t[3]]
            /\ hit = {} =>
                  /\ l.resp.tag = "InvalidTransition"
                  /\ l.resp.current_state = l.pre.state
                  /\ l.post.state = l.pre.state
            /\ (l.pre.state = "Off" /\ l.cmd = <<"Feed", 1>>) =>
                  l.resp = [tag |-> "InvalidTransition", current_state |-> "Off",
                            attempted_command |-> "Feed(1)"]

LatheTransitionsWitness ==
    /\ kind = "lathe" /\ last # <<>>
    /\ last[1].pre.state = "Feeding" /\ last[1].cmd = <<"Notaus">>
    /\ last[1].post.state = "Notaus" /\ last[1].resp.tag = "Status"

\* C16 - Lathe data effects: an accepted StartSpinning(r) sets revs to r and
\* keeps feed; Feed(f) sets feed to f and keeps revs; StopFeed clears feed and
\* keeps revs; StopSpinning and Acknowledge clear both.
LatheDataEffects ==
    (kind = "lathe" /\ last # <<>> /\ last[1].resp.tag = "Status") =>
        LET l == last[1]
            c == l.cmd[1]
        IN  /\ c = "StartSpinning" =>
                  l.post.data.revs = l.cmd[2] /\ l.post.data.feed = l.pre.data.feed
            /\ c = "Feed" =>
                  l.post.data.feed = l.cmd[2] /\ l.post.data.revs = l.pre.data.revs
            /\ c = "StopFeed" =>
                  l.post.data.feed = 0 /\ l.post.data.revs = l.pre.data.revs
            /\ c \in {"StopSpinning", "Acknowledge"} =>
                  l.post.data.revs = 0 /\ l.post.data.feed = 0

LatheDataEffectsWitness ==
    /\ kind = "lathe" /\ last # <<>>
    /\ last[1].pre = [state |-> "Off", data |-> [revs |-> 0, feed |-> 1]]
    /\ last[1].cmd = <<"StartSpinning", 1>>
    /\ wrapper = [state |-> "Spinning", data |-> [revs |-> 1, feed |-> 1]]

\* C17 - Mill transition table: the four listed transitions, and only they,
\* are accepted, each answered Status naming its destination; every other
\* state and command is answered InvalidTransition with the current state and
\* the rendered command; and the machine's state is always the one the last
\* Status named (Off before the first).
MillTransitions ==
    kind = "mill" =>
        /\ wrapper.state = lastStatus
        /\ last # <<>> =>
              LET l == last[1]
                  listed == { <<"Off", "StartSpinning", "Spinning">>,
                              <<"Spinning", "StopSpinning", "Off">>,
                              <<"Spinning", "Move", "Moving">>,
                              <<"Moving", "StopMoving", "Spinning">> }
                  hit == {t \in listed : t[1] = l.pre.state /\ t[2] = l.cmd[1]}
              IN  /\ Cardinality(hit) <= 1
                  /\ \A t \in hit :
                        /\ l.post.state = t[3]
                        /\ l.resp = [tag |-> "Status", state |-> t[3]]
                  /\ hit = {} =>
                        /\ l.resp.tag = "InvalidTransition"
                        /\ l.resp.current_state = l.pre.state
                        /\ l.resp.attempted_command = DebugFmt(l.cmd)
                        /\ l.post.state = l.pre.state
                  /\ (l.pre.state = "Moving" /\ l.cmd = <<"StopSpinning">>) =>
                        l.resp = [tag |-> "InvalidTransition",
                                  current_state |-> "Moving",
                                  attempted_command |-> "StopSpinning"]

MillTransitionsWitness ==
    /\ kind = "mill" /\ last # <<>>
    /\ last[1].pre.state = "Moving" /\ last[1].cmd = <<"StopSpinning">>
    /\ last[1].resp.tag = "InvalidTransition" /\ lastStatus = "Moving"

\* C18 - Mill data effects: an accepted StartSpinning(r) sets revs to r;
\* Move(m) sets linear_move to m and keeps revs; StopMoving clears linear_move
\* and keeps revs; StopSpinning clears revs.
MillDataEffects ==
    (kind = "mill" /\ last # <<>> /\ last[1].resp.tag = "Status") =>
        LET l == last[1]
            c == l.cmd[1]
        IN  /\ c = "StartSpinning" => l.post.data.revs = l.cmd[2]
            /\ c = "Move" =>
                  /\ l.post.data.linear_move = l.cmd[2]
                  /\ l.post.data.revs = l.pre.data.revs
            /\ c = "StopMoving" =>
                  /\ l.post.data.linear_move = 0
                  /\ l.post.data.revs = l.pre.data.revs
            /\ c = "StopSpinning" => l.post.data.revs = 0

MillDataEffectsWitness ==
    /\ kind = "mill" /\ last # <<>>
    /\ last[1].pre = [state |-> "Spinning", data |-> [revs |-> 1, linear_move |-> 0]]
    /\ last[1].cmd = <<"Move", 0 - 1>>
    /\ wrapper = [state |-> "Moving", data |-> [revs |-> 1, linear_move |-> 0 - 1]]

\* C20 - A failed response send stops the worker: no command is handled after
\* the first response that could not be delivered.
StopsOnFailedSend == handled - published <= 1

\* C21 - Draining: once the stop has been signalled (shutdown called, or the
\* controller dropped), a worker that has stopped has handled every command
\* that was submitted before the signal.
DrainsBeforeStop ==
    (ctl # "alive" /\ wpc = "stopped") => handled = Len(submitted)

\* C22 - The worker's lifecycle only moves forward, Running (0) to Draining
\* (1: the stop has been signalled) to Stopped (2), and Stopped is terminal:
\* a stopped worker stays stopped, handles no command, publishes no response,
\* and the machine's state and data stay as they are.
StoppedIsTerminal ==
    [][LET phase(w, c) == IF w = "stopped" THEN 2 ELSE IF c # "alive" THEN 1 ELSE 0
       IN  /\ phase(wpc', ctl') >= phase(wpc, ctl)
           /\ wpc = "stopped" =>
                 /\ wpc' = "stopped"
                 /\ handled' = handled /\ published' = published
                 /\ wrapper' = wrapper /\ inflight' = inflight
                 /\ Len(respQ') <= Len(respQ)]_vars

StoppedWitness ==
    /\ wpc = "stopped" /\ ctl = "done"
    /\ handled > 0 /\ wrapper.state # "Off"

\* C23 - Worker termination: once the stop has been requested (shutdown
\* called, or the controller dropped) the worker eventually stops, whatever is
\* queued and also when it is waiting on an empty command channel.
WorkerTerminates == (ctl # "alive") ~> (wpc = "stopped")

WorkerTerminatesWitness ==
    /\ wpc = "stopped" /\ ctl = "joining"
    /\ handled > 1 /\ handled = Len(submitted)

\* C24 - All mutation happens on the worker: a step that changes the machine's
\* state or data is the worker handling the one command it holds, and nothing
\* else; every step of the controller (send_command, check_responses,
\* shutdown, drop) leaves the machine as it is; the worker holds at most one
\* command and handles one per step.
MutationOnWorker ==
    [][/\ wrapper' # wrapper =>
             /\ wpc = "handle" /\ Len(inflight) = 1
             /\ wrapper' = handle_cmd(kind, wrapper, inflight[1]).w
             /\ handled' = handled + 1
             /\ ctl' = ctl /\ submitted' = submitted /\ polled' = polled
       /\ (ctl' # ctl \/ submitted' # submitted \/ polled' # polled
               \/ lastPoll' # lastPoll \/ lastSend' # lastSend
               \/ shutdownResult' # shutdownResult) =>
             wrapper' = wrapper
       /\ handled' \in {handled, handled + 1}
       /\ Len(inflight') <= 1]_vars

MutationWitness ==
    /\ ctl = "alive" /\ last # <<>>
    /\ last[1].pre.state = "Off" /\ wrapper.state = "Spinning"
    /\ wrapper.data.revs = 1 /\ polled # <<>> /\ cmdQ # <<>>

\* C25 - send_command and check_responses never block: while the controller
\* exists a poll can always be made and, as long as the model's bound on the
\* number of calls allows one more, every command can be sent, whatever is
\* queued, in flight or ready.
NeverBlocks ==
    ctl = "alive" =>
        /\ ENABLED check_responses
        /\ Len(submitted) < MaxCmds =>
              \A cmd \in CommandsOf(kind) : ENABLED send_command(cmd)

NeverBlocksWitness ==
    /\ ctl = "alive" /\ inflight # <<>> /\ respQ = <<>>
    /\ Len(submitted) = 1 /\ lastPoll = <<<<>>>>

\* C26 - Transitions are atomic: a command either is rejected and leaves state
\* and data exactly as they were, or is answered Status and changes the state;
\* data never changes without the state changing. For the mill, whose handler
\* writes the data before the machine consumes the input, every command that
\* enters one of the four writing arms is accepted (the arms' fallbacks to
\* None are never taken).
TransitionsAtomic ==
    last # <<>> =>
        LET l == last[1]
            arms == { <<"StartSpinning", "Off">>, <<"StopSpinning", "Spinning">>,
                      <<"Move", "Spinning">>, <<"StopMoving", "Moving">> }
        IN  /\ l.resp.tag = "InvalidTransition" => l.post = l.pre
            /\ l.post.data # l.pre.data =>
                  l.resp.tag = "Status" /\ l.post.state # l.pre.state
            /\ l.post.state # l.pre.state => l.resp.tag = "Status"
            /\ (kind = "mill" /\ <<l.cmd[1], l.pre.state>> \in arms) =>
                  /\ l.resp.tag = "Status"
                  /\ l.post.state # l.pre.state

TransitionsAtomicWitness ==
    /\ kind = "mill" /\ last # <<>>
    /\ last[1].pre = [state |-> "Spinning", data |-> [revs |-> 1, linear_move |-> 0]]
    /\ last[1].cmd = <<"Move", 1>>
    /\ last[1].resp.tag = "Status"
    /\ wrapper = [state |-> "Moving", data |-> [revs |-> 1, linear_move |-> 1]]

\* C27 - Lathe data invariant: a lathe started with default data has revs = 0
\* and feed = 0 whenever it is Off and feed = 0 whenever it is Spinning; a
\* non-zero feed is held only in Feeding, or in Notaus where it was carried in
\* from Feeding (and kept while the lathe stayed in Notaus).
LatheDataInvariant ==
    /\ [](  (kind = "lathe" /\ initData = [revs |-> 0, feed |-> 0]) =>
               /\ wrapper.state = "Off" => wrapper.data = [revs |-> 0, feed |-> 0]
               /\ wrapper.state = "Spinning" => wrapper.data.feed = 0
               /\ wrapper.data.feed # 0 => wrapper.state \in {"Feeding", "Notaus"}  )
    /\ [][  (kind = "lathe" /\ initData = [revs |-> 0, feed |-> 0]
                /\ wrapper'.state = "Notaus" /\ wrapper'.data.feed # 0) =>
               /\ wrapper.state \in {"Feeding", "Notaus"}
               /\ wrapper.data.feed = wrapper'.data.feed  ]_vars

LatheDataInvariantWitness ==
    /\ kind = "lathe" /\ initData = [revs |-> 0, feed |-> 0]
    /\ last # <<>> /\ last[1].pre.state = "Feeding" /\ last[1].cmd = <<"Notaus">>
    /\ wrapper = [state |-> "Notaus", data |-> [revs |-> 1, feed |-> 1]]

\* C28 - Mill data invariant: the mill has revs = 0 and linear_move = 0
\* whenever it is Off and linear_move = 0 whenever it is Spinning; revs does
\* not change in a step that starts and ends in Spinning or Moving, and a
\* StartSpinning received there is rejected.
MillDataInvariant ==
    /\ [](  kind = "mill" =>
               /\ wrapper.state = "Off" =>
                     wrapper.data = [revs |-> 0, linear_move |-> 0]
               /\ wrapper.state = "Spinning" => wrapper.data.linear_move = 0
               /\ (last # <<>> /\ last[1].cmd[1] = "StartSpinning"
                      /\ last[1].pre.state \in {"Spinning", "Moving"}) =>
                     /\ last[1].resp.tag = "InvalidTransition"
                     /\ last[1].post = last[1].pre  )
    /\ [][  (kind = "mill" /\ wrapper.state \in {"Spinning", "Moving"}
                /\ wrapper'.state \in {"Spinning", "Moving"}) =>
               wrapper'.data.revs = wrapper.data.revs  ]_vars

MillDataInvariantWitness ==
    /\ kind = "mill" /\ last # <<>>
    /\ last[1].pre = [state |-> "Moving", data |-> [revs |-> 1, linear_move |-> 1]]
    /\ last[1].cmd = <<"StartSpinning", 0>>
    /\ wrapper = last[1].pre

\* C29 - Entering emergency stop preserves data: every step of the lathe that
\* ends in Notaus (the accepted Notaus from Off, Spinning or Feeding, and every
\* command rejected in Notaus) leaves revs and feed as they were; the only
\* step that changes a lathe in Notaus is Acknowledge, which clears both.
NotausKeepsData ==
    [][kind = "lathe" =>
          /\ wrapper'.state = "Notaus" => wrapper'.data = wrapper.data
          /\ (wrapper.state = "Notaus" /\ wrapper' # wrapper) =>
                /\ last'[1].cmd = <<"Acknowledge">>
                /\ wrapper' = [state |-> "Off", data |-> [revs |-> 0, feed |-> 0]]]_vars

NotausKeepsDataWitness ==
    /\ kind = "lathe" /\ last # <<>>
    /\ last[1].pre = [state |-> "Notaus", data |-> [revs |-> 1, feed |-> 1]]
    /\ last[1].cmd = <<"StopSpinning">>
    /\ wrapper = [state |-> "Notaus", data |-> [revs |-> 1, feed |-> 1]]

\* C30 - The two lathe dispatchers are equivalent: whatever command
\* LatheWrapper::handle_cmd has just handled, LatheActor::handle_command gives
\* the same destination state, the same data and the same response from the
\* same lathe; and from the lathe reached, both give the same result for
\* every command, so that side by side they stay in corresponding states.
DispatchersAgree ==
    kind = "lathe" =>
        /\ last # <<>> =>
              LatheActor_handle_command(last[1].pre, last[1].cmd)
                  = [w |-> last[1].post, resp |-> last[1].resp]
        /\ \A cmd \in LatheCommand :
              LatheActor_handle_command(wrapper, cmd)
                  = LatheWrapper_handle_cmd(wrapper, cmd)

DispatchersAgreeWitness ==
    /\ kind = "lathe" /\ last # <<>>
    /\ last[1].pre = [state |-> "Notaus", data |-> [revs |-> 1, feed |-> 0]]
    /\ last[1].cmd = <<"Notaus">>
    /\ last[1].resp.tag = "InvalidTransition"
    /\ wrapper = last[1].pre

\* C31 - The worker never stops on its own: while the controller exists and
\* neither shutdown nor drop has begun the worker is running, whatever it has
\* handled and however long its channel has been empty, and no send_command
\* has ever returned Err.
WorkerKeepsRunning ==
    /\ ctl = "alive" => wpc # "stopped"
    /\ lastSend # "Err"

WorkerKeepsRunningWitness ==
    /\ kind = "mill" /\ ctl = "alive"
    /\ wpc = "check" /\ cmdQ = <<>> /\ inflight = <<>>
    /\ handled > 1 /\ handled = Len(submitted) /\ lastSend = "Ok"

\* C32 - Responses track the machine: whenever the worker is between commands
\* the state named by the last Status delivered to the response channel (Off
\* if there is none) is the machine's state; an InvalidTransition changes
\* neither and names that same state.
ResponsesTrackMachine ==
    wpc # "handle" =>
        /\ lastPublished = wrapper.state
        /\ (last # <<>> /\ last[1].resp.tag = "InvalidTransition") =>
              /\ last[1].resp.current_state = wrapper.state
              /\ last[1].post = last[1].pre

====
